---- MODULE Spec2Model ----
(***************************************************************************)
(* Model of the weather-microservice-demo pipeline:                        *)
(*   - app/extract/fetch_weather_gridpoints.py : fetch_weather_points and  *)
(*     process_nws_responses (the batched fetch loop and the extractor),   *)
(*   - app/load/load_gridpoints.py, app/utils/process_gridpoints.py and    *)
(*     src/database/*.py : the TSV loader and its transactions,            *)
(*   - app/utils/grid_utils.py : create_us_grid.                           *)
(* The programs run independently; each has its own specification:         *)
(* SpecFetch (the fetch run), SpecCall (one call of the extractor),        *)
(* SpecLoad (the loader) and SpecGrid (the grid construction); Spec is     *)
(* the run of any one of them.                                             *)
(***************************************************************************)
EXTENDS Integers, Sequences, FiniteSets, TLC

\* ---------------------------------------------------------------- bounds
MaxCells == 3
MaxLimit == 3
MaxBatch == 2

\* Python's None for an optional integer argument.
None == -1

Min(a, b) == IF a <= b THEN a ELSE b

CeilDiv(a, b) == (a + b - 1) \div b

\* ------------------------------------------------------- response bodies
\* keys_to_extract of process_nws_responses.
keys_to_extract ==
    << "gridId", "gridX", "gridY", "forecast", "forecastHourly",
       "forecastOffice", "forecastGridData", "observationStations",
       "forecastZone", "timeZone", "radarStation" >>

\* A JSON string handed to process_nws_responses, by the shape that the
\* extraction code looks at: the top-level type, whether "id" is present,
\* whether geometry.coordinates is present and of which length, whether
\* "properties" is present, and which of the extracted keys "properties"
\* lacks.  src identifies the lookup it answers.
Tops == {"object", "list", "scalar", "unparseable"}
Coords == {"absent", "pair", "wronglen"}

Body(top, id, coords, props) ==
    [top |-> top, id |-> id, coords |-> coords, props |-> props, lacks |-> {}]

\* An object whose "properties" is present but lacks some extracted keys.
BodyLacking(id, coords, lacks) ==
    [top |-> "object", id |-> id, coords |-> coords, props |-> TRUE,
     lacks |-> lacks]

ObjectShapes ==
    { Body("object", id, c, p) : id \in BOOLEAN, c \in Coords, p \in BOOLEAN }

NonObjectShapes ==
    { Body(t, FALSE, "absent", FALSE) : t \in {"list", "scalar"} }

UnparseableShape == Body("unparseable", FALSE, "absent", FALSE)

\* The 2xx bodies the fetch loop is driven with: response.json() followed by
\* json.dumps always yields a parseable string.
FetchShapes ==
    { Body("object", TRUE, "pair", TRUE),
      Body("object", FALSE, "pair", TRUE),
      Body("object", TRUE, "pair", FALSE),
      Body("object", TRUE, "wronglen", TRUE),
      Body("list", FALSE, "absent", FALSE),
      Body("scalar", FALSE, "absent", FALSE) }

WithSrc(shape, src) ==
    [top |-> shape.top, id |-> shape.id, coords |-> shape.coords,
     props |-> shape.props, lacks |-> shape.lacks, src |-> src]

\* --------------------------------------------------------- the extractor
\* Lines 49-66: the keys of the record built for one object response.
RecordKeys(b) ==
    (IF b.id THEN << "api_call_id" >> ELSE << >>)
    \o (IF b.coords = "pair" THEN << "centroid_lon", "centroid_lat" >> ELSE << >>)
    \o (IF b.props THEN keys_to_extract ELSE << >>)

\* The id read by subscript: an object without "id" raises too.
RaisesValueError_OnMissingId(b) ==
    \/ b.top \in {"list", "scalar"}
    \/ b.top = "object" /\ b.coords = "wronglen"
    \/ b.top = "object" /\ ~b.id

\* No handler for the decode error: a string that is not JSON raises too.
RaisesValueError_OnUnparseable(b) ==
    \/ b.top \in {"list", "scalar", "unparseable"}
    \/ b.top = "object" /\ b.coords = "wronglen"

\* Lines 55-61, 67-74: the items on which the loop raises ValueError.
RaisesValueError(b) ==
    \/ b.top \in {"list", "scalar"}
    \/ b.top = "object" /\ b.coords = "wronglen"

\* Line 65: properties.get(key, ""): the keys of the record that hold the
\* placeholder "".
PlaceholderKeys(b) == IF b.props THEN b.lacks ELSE {}

\* Line 62-66: a record is appended only under `if "properties" in json_data`.
AppendsRecord(b) == b.top = "object" /\ b.props

RECURSIVE AllRecords(_)
\* Lines 42-77 for a call that does not raise: all_records, in input order.
\* An unparseable string is skipped by `except json.JSONDecodeError: continue`.
AllRecords(json_strings) ==
    IF json_strings = << >> THEN << >>
    ELSE LET b == Head(json_strings)
             rest == AllRecords(Tail(json_strings))
         IN  IF AppendsRecord(b)
             THEN << [src |-> b.src, keys |-> RecordKeys(b),
                      blank |-> PlaceholderKeys(b)] >> \o rest
             ELSE rest

ExtractionRaises(json_strings) ==
    \E k \in 1..Len(json_strings) : RaisesValueError(json_strings[k])

SeqToSet(s) == { s[k] : k \in 1..Len(s) }

RECURSIVE AppendNew(_, _)
\* fast_unique_multiple_list_gen: append the keys not yet seen, in order.
AppendNew(cols, keys) ==
    IF keys = << >> THEN cols
    ELSE IF Head(keys) \in SeqToSet(cols)
         THEN AppendNew(cols, Tail(keys))
         ELSE AppendNew(Append(cols, Head(keys)), Tail(keys))

RECURSIVE DataFrameColumns(_)
\* Line 80: pd.DataFrame(list of dicts) orders the columns by first
\* appearance of each key over the records.
DataFrameColumns(records) ==
    IF records = << >> THEN << >>
    ELSE LET front == DataFrameColumns(SubSeq(records, 1, Len(records) - 1))
         IN  AppendNew(front, records[Len(records)].keys)

\* ------------------------------------------------------------- the sink
\* The sink file is a sequence of lines.  A header line lists column names; a
\* row line carries the values of one record in the column order of the data
\* frame it was written from; a blank line is what to_csv writes as the header
\* of a frame without columns.
HeaderLine(cols) ==
    [t |-> "header", cols |-> cols, src |-> -1, keys |-> << >>, blank |-> {}]
BlankLine ==
    [t |-> "blank", cols |-> << >>, src |-> -1, keys |-> << >>, blank |-> {}]
RowLine(cols, rec) ==
    [t |-> "row", cols |-> cols, src |-> rec.src, keys |-> rec.keys,
     blank |-> rec.blank]

NoFile == [exists |-> FALSE, lines |-> << >>]

RowLines(cols, records) == [k \in 1..Len(records) |-> RowLine(cols, records[k])]

\* Lines 80-88: df.to_csv(mode 'a' if the file exists else 'w',
\* header only if the file does not exist).
ToCsv(file, records) ==
    LET cols == DataFrameColumns(records)
    IN  IF file.exists
        THEN [exists |-> TRUE, lines |-> file.lines \o RowLines(cols, records)]
        ELSE [exists |-> TRUE,
              lines |-> << (IF cols = << >> THEN BlankLine ELSE HeaderLine(cols)) >>
                        \o RowLines(cols, records)]

process_nws_responses_WritesThenRaises(json_strings, file) ==
    IF ExtractionRaises(json_strings)
    THEN LET first == CHOOSE k \in 1..Len(json_strings) :
                         /\ RaisesValueError(json_strings[k])
                         /\ \A j \in 1..(k - 1) : ~RaisesValueError(json_strings[j])
         IN  [exc |-> "ValueError",
              file |-> ToCsv(file, AllRecords(SubSeq(json_strings, 1, first - 1)))]
    ELSE [exc |-> "none", file |-> ToCsv(file, AllRecords(json_strings))]

\* process_nws_responses as a function of its input and the sink: the
\* exception that escapes it ("none" if it returns) and the sink afterwards.
process_nws_responses(json_strings, file) ==
    IF ExtractionRaises(json_strings)
    THEN [exc |-> "ValueError", file |-> file]
    ELSE [exc |-> "none", file |-> ToCsv(file, AllRecords(json_strings))]

\* Rows of a sink file (the lines that are not header or blank).
DataRows(file) == SelectSeq(file.lines, LAMBDA l : l.t = "row")

\* Line 166: len(pd.read_csv(path, sep='\t')): the first non-blank line is
\* taken as the header whatever it holds; blank lines are skipped.
NonBlank(file) == SelectSeq(file.lines, LAMBDA l : l.t # "blank")

ReadCsvExc(file) ==
    IF ~file.exists THEN "FileNotFoundError"
    ELSE IF NonBlank(file) = << >> THEN "EmptyDataError"
    ELSE "none"

ReadCsvLen(file) == Len(NonBlank(file)) - 1

\* read_csv sizes the table by its first non-blank line; a later line with
\* more fields than that one does not fit it, and the parser may reject the
\* file ("Expected k fields, saw m") or take the extra field as an index.
ReadCsvWiderLine(file) ==
    /\ file.exists
    /\ NonBlank(file) # << >>
    /\ \E k \in 2..Len(NonBlank(file)) :
          Len(NonBlank(file)[k].cols) > Len(NonBlank(file)[1].cols)

\* ============================================================ state
VARIABLES
    \* fetch_weather_points
    cells_len,                \* len(grids)
    num_points_limit,         \* argument, None or a number
    batch_size,               \* argument
    last_index,               \* line 127
    i,                        \* loop variable of line 130
    pc,                       \* position of the fetch run
    json_responses,           \* line 124
    count_batch,              \* line 125
    count_failed_responses,   \* line 126
    count_written_responses,  \* line 166
    sink,                     \* the file at output_path
    trace,                    \* requests, sleeps and flush calls, in order
    exc                       \* the exception that ended the run, or "none"

VARIABLES
    \* process_nws_responses called on its own
    call_pc,                  \* "idle", "ready" or "returned"
    call_input,               \* json_strings
    call_file,                \* the file at output_path
    call_exc                  \* the exception that escaped the call, or "none"

VARIABLES
    \* load_gridpoints_from_tsv
    load_pc,                  \* position of the load
    tsv_rows,                 \* the data rows of the file at file_path
    num_rows,                 \* argument, None or a number
    mode,                     \* argument, "o" or "a"
    load_batch_size,          \* argument
    raw_data,                 \* line 119
    valid_gridpoints,         \* line 126
    offset,                   \* loop variable i of insert_gridpoints, line 53
    successful_inserts,       \* line 38
    success,                  \* line 145, "none" until insert_gridpoints returns
    table_before,             \* rows of table gridpoints when the load starts
    table,                    \* committed rows of table gridpoints
    txn,                      \* rows inserted by the open transaction
    db_log,                   \* committed and attempted statements, in order
    load_error,               \* the last error logged by the load
    load_result               \* "none" while running, then "True"/"False"/"raised"

VARIABLES
    \* create_us_grid
    grid_pc,                  \* position of the construction
    shapefile_path,           \* argument given?
    output_path,              \* argument given?
    contiguous_n,             \* rows left by the allow-list filter
    width, height,            \* extent of the bounding box, in metres
    grids,                    \* the candidate cells
    grids_filtered,           \* the retained cells
    files,                    \* geometry files written
    grid_log,                 \* levels of the messages logged for save failures
    grid_ret                  \* "pending", "grid", "None" or "raised"

fetch_vars ==
    << cells_len, num_points_limit, batch_size, last_index, i, pc,
       json_responses, count_batch, count_failed_responses,
       count_written_responses, sink, trace, exc >>

call_vars == << call_pc, call_input, call_file, call_exc >>

load_vars ==
    << load_pc, tsv_rows, num_rows, mode, load_batch_size, raw_data,
       valid_gridpoints, offset, successful_inserts, success, table_before,
       table, txn, db_log,
       load_error, load_result >>

grid_vars ==
    << grid_pc, shapefile_path, output_path, contiguous_n, width, height,
       grids, grids_filtered, files, grid_log, grid_ret >>

vars == << fetch_vars, call_vars, load_vars, grid_vars >>

not_fetch == << call_vars, load_vars, grid_vars >>
not_call == << fetch_vars, load_vars, grid_vars >>
not_load == << fetch_vars, call_vars, grid_vars >>
not_grid == << fetch_vars, call_vars, load_vars >>

\* The programs are separate processes: in the specification of one, the
\* others have not been started.
FetchIdle ==
    /\ cells_len = 0 /\ num_points_limit = None /\ batch_size = 1
    /\ last_index = -1 /\ i = 0 /\ pc = "idle" /\ json_responses = << >>
    /\ count_batch = 0 /\ count_failed_responses = 0
    /\ count_written_responses = None
    /\ sink = [exists |-> FALSE, lines |-> << >>]
    /\ trace = << >> /\ exc = "none"

CallIdle ==
    /\ call_pc = "idle" /\ call_input = << >>
    /\ call_file = [exists |-> FALSE, lines |-> << >>]
    /\ call_exc = "none"

LoadIdle ==
    /\ load_pc = "idle" /\ tsv_rows = << >> /\ num_rows = None /\ mode = "o"
    /\ load_batch_size = 1 /\ raw_data = << >> /\ valid_gridpoints = << >>
    /\ offset = 0 /\ successful_inserts = 0 /\ success = "none"
    /\ table_before = << >> /\ table = << >> /\ txn = << >>
    /\ db_log = << >> /\ load_error = "none" /\ load_result = "none"

GridIdle ==
    /\ grid_pc = "idle" /\ shapefile_path = FALSE /\ output_path = FALSE
    /\ contiguous_n = 0 /\ width = 0 /\ height = 0 /\ grids = << >>
    /\ grids_filtered = << >> /\ files = {} /\ grid_log = << >>
    /\ grid_ret = "pending"

\* ------------------------------------------------- fetch_weather_points
AllCols == << "api_call_id", "centroid_lon", "centroid_lat" >> \o keys_to_extract

\* A sink left by an earlier run: header and one row.
PriorFile ==
    [exists |-> TRUE,
     lines |-> << HeaderLine(AllCols),
                  RowLine(AllCols, [src |-> -2, keys |-> AllCols, blank |-> {}]) >>]

\* Python truthiness of `if num_points_limit` (line 127).
Truthy(limit) == limit # None /\ limit # 0

\* Line 127.
LastIndex(limit, n) ==
    IF Truthy(limit) THEN Min(limit, n) - 1 ELSE n - 1

FlushDue_NoFinal(idx, B, last) == idx % B = B - 1

\* Line 160: the flush condition.
\* One flush at the end of the run, none at the end of a window.
FlushDue_OnlyFinal(idx, B, last) == idx = last

FlushDue(idx, B, last) == idx % B = B - 1 \/ idx = last

\* Line 152: the pacing condition, reached only when the request succeeded.
SleepDue(idx, B) == idx % B = B - 1

\* Line 130: where the for loop goes after the body for index idx.
NextPc(idx, last) == IF idx + 1 <= last THEN "issue" ELSE "report"

\* One observable step of the run: a request with its outcome (and the 2xx
\* body, if any), a pacing sleep, or a call of process_nws_responses.
NoBody == Body("none", FALSE, "absent", FALSE)
Event(e, idx, o, b) == [e |-> e, i |-> idx, o |-> o, b |-> b]

InitFetch ==
    /\ cells_len \in 0..MaxCells
    /\ num_points_limit \in {None} \cup 0..MaxLimit
    /\ batch_size \in 1..MaxBatch
    /\ last_index = LastIndex(num_points_limit, cells_len)
    /\ i = 0
    /\ pc = IF 0 <= last_index THEN "issue" ELSE "report"
    /\ json_responses = << >>
    /\ count_batch = 0
    /\ count_failed_responses = 0
    /\ count_written_responses = None
    /\ sink \in {NoFile, PriorFile}
    /\ trace = << >>
    /\ exc = "none"
    /\ CallIdle /\ LoadIdle /\ GridIdle

\* Lines 142-155, the request succeeds with a 2xx JSON body.
IssueOk(shape) ==
    /\ pc = "issue"
    /\ json_responses' = Append(json_responses, WithSrc(shape, i))
    /\ trace' = Append(trace, Event("req", i, "ok", shape))
    /\ pc' = IF SleepDue(i, batch_size) THEN "sleep" ELSE "flush_check"
    /\ UNCHANGED not_fetch
    /\ UNCHANGED << cells_len, num_points_limit, batch_size, last_index, i,
                    count_batch, count_failed_responses,
                    count_written_responses, sink, exc >>

IssueFailed_Propagates(kind) ==
    /\ pc = "issue"
    /\ trace' = Append(trace, Event("req", i, kind, NoBody))
    /\ exc' = "RequestException"
    /\ pc' = "aborted"
    /\ UNCHANGED not_fetch
    /\ UNCHANGED << cells_len, num_points_limit, batch_size, last_index, i,
                    json_responses, count_batch, count_failed_responses,
                    count_written_responses, sink >>

\* Lines 142-143 raise RequestException (requests.get fails, or
\* raise_for_status on a non-2xx); lines 156-158 count it and go on.
\* The failure is logged and skipped, but not counted.
IssueFailed_NotCounted(kind) ==
    /\ pc = "issue"
    /\ trace' = Append(trace, Event("req", i, kind, NoBody))
    /\ pc' = "flush_check"
    /\ UNCHANGED not_fetch
    /\ UNCHANGED << cells_len, num_points_limit, batch_size, last_index, i,
                    json_responses, count_batch, count_failed_responses,
                    count_written_responses, sink, exc >>

IssueFailed(kind) ==
    /\ pc = "issue"
    /\ count_failed_responses' = count_failed_responses + 1
    /\ trace' = Append(trace, Event("req", i, kind, NoBody))
    /\ pc' = "flush_check"
    /\ UNCHANGED not_fetch
    /\ UNCHANGED << cells_len, num_points_limit, batch_size, last_index, i,
                    json_responses, count_batch, count_written_responses,
                    sink, exc >>

\* Lines 152-155.
Sleep ==
    /\ pc = "sleep"
    /\ trace' = Append(trace, Event("sleep", i, "-", NoBody))
    /\ pc' = "flush_check"
    /\ UNCHANGED not_fetch
    /\ UNCHANGED << cells_len, num_points_limit, batch_size, last_index, i,
                    json_responses, count_batch, count_failed_responses,
                    count_written_responses, sink, exc >>

\* Lines 160-164: the flush; a ValueError of the extractor is not caught.
Flush ==
    /\ pc = "flush_check"
    /\ FlushDue(i, batch_size, last_index)
    /\ count_batch' = count_batch + 1
    /\ trace' = Append(trace, Event("flush", i, "-", NoBody))
    /\ LET r == process_nws_responses(json_responses, sink)
       IN  IF r.exc = "none"
           THEN /\ sink' = r.file
                /\ json_responses' = << >>
                /\ i' = i + 1
                /\ pc' = NextPc(i, last_index)
                /\ exc' = exc
           ELSE /\ exc' = r.exc
                /\ pc' = "aborted"
                /\ UNCHANGED << sink, json_responses, i >>
    /\ UNCHANGED not_fetch
    /\ UNCHANGED << cells_len, num_points_limit, batch_size, last_index,
                    count_failed_responses, count_written_responses >>

\* Line 35 (os.makedirs) or the write of line 82 fails with OSError.
FlushOSError ==
    /\ pc = "flush_check"
    /\ FlushDue(i, batch_size, last_index)
    /\ count_batch' = count_batch + 1
    /\ trace' = Append(trace, Event("flush", i, "-", NoBody))
    /\ exc' = "OSError"
    /\ pc' = "aborted"
    /\ UNCHANGED not_fetch
    /\ UNCHANGED << cells_len, num_points_limit, batch_size, last_index, i,
                    json_responses, count_failed_responses,
                    count_written_responses, sink >>

\* Line 160 false: next iteration.
SkipFlush ==
    /\ pc = "flush_check"
    /\ ~FlushDue(i, batch_size, last_index)
    /\ i' = i + 1
    /\ pc' = NextPc(i, last_index)
    /\ UNCHANGED not_fetch
    /\ UNCHANGED << cells_len, num_points_limit, batch_size, last_index,
                    json_responses, count_batch, count_failed_responses,
                    count_written_responses, sink, trace, exc >>

\* Lines 166-171: the written count is read back from the sink.
Report ==
    /\ pc = "report"
    /\ IF ReadCsvExc(sink) = "none"
       THEN /\ count_written_responses' = ReadCsvLen(sink)
            /\ pc' = "done"
            /\ exc' = exc
       ELSE /\ exc' = ReadCsvExc(sink)
            /\ pc' = "aborted"
            /\ UNCHANGED count_written_responses
    /\ UNCHANGED not_fetch
    /\ UNCHANGED << cells_len, num_points_limit, batch_size, last_index, i,
                    json_responses, count_batch, count_failed_responses,
                    sink, trace >>

\* Line 166, when the parser rejects a line wider than the header.
ReportParserError ==
    /\ pc = "report"
    /\ ReadCsvWiderLine(sink)
    /\ exc' = "ParserError"
    /\ pc' = "aborted"
    /\ UNCHANGED not_fetch
    /\ UNCHANGED << cells_len, num_points_limit, batch_size, last_index, i,
                    json_responses, count_batch, count_failed_responses,
                    count_written_responses, sink, trace >>

NextFetch ==
    \/ \E shape \in FetchShapes : IssueOk(shape)
    \/ \E kind \in {"transport", "non2xx"} : IssueFailed(kind)
    \/ Sleep
    \/ Flush
    \/ FlushOSError
    \/ SkipFlush
    \/ Report
    \/ ReportParserError

SpecFetch == InitFetch /\ [][NextFetch]_vars

\* ============================== process_nws_responses called on its own
MaxStrings == 3

\* The strings a call is driven with: the shapes of the fetch loop, an object
\* without id and coordinates, an object whose properties lack gridX, and a
\* string that is not JSON.
CallShapes ==
    FetchShapes \cup { Body("object", FALSE, "absent", TRUE),
                       BodyLacking(TRUE, "pair", {"gridX"}),
                       UnparseableShape }

\* Files a call may find at output_path: none, one written by an earlier call
\* with records, one written by an earlier call without any record.
CallFiles == { NoFile, PriorFile, ToCsv(NoFile, << >>) }

InitCall ==
    /\ call_pc = "ready"
    /\ \E n \in 0..MaxStrings :
          \E shapes \in [1..n -> CallShapes] :
              call_input = [k \in 1..n |-> WithSrc(shapes[k], k)]
    /\ call_file \in CallFiles
    /\ call_exc = "none"
    /\ FetchIdle /\ LoadIdle /\ GridIdle

\* Lines 27-90, one call.
ProcessCall ==
    /\ call_pc = "ready"
    /\ LET r == process_nws_responses(call_input, call_file)
       IN  /\ call_exc' = r.exc
           /\ call_file' = r.file
    /\ call_pc' = "returned"
    /\ UNCHANGED call_input
    /\ UNCHANGED not_call

NextCall == ProcessCall

SpecCall == InitCall /\ [][NextCall]_vars

\* ============================================== load_gridpoints_from_tsv
MaxRows == 3
MaxNumRows == 2
MaxLoadBatch == 2

\* A cell of a csv.DictReader row: Missing stands for an absent key or the
\* None a short line gets; the other values are the cell's text.
Missing == "<missing>"

\* validate_gridpoint_row, line 111.
required_fields ==
    << "api_call_id", "centroid_lon", "centroid_lat", "gridId", "gridX", "gridY" >>

RawRow(id, lon, lat, gid, gx, gy) ==
    [api_call_id |-> id, centroid_lon |-> lon, centroid_lat |-> lat,
     gridId |-> gid, gridX |-> gx, gridY |-> gy]

\* The rows the loader is driven with: a complete row, and rows with one
\* defective required field each (absent, empty, not a number, not an integer).
RowSamples ==
    { RawRow("id", "1.5", "12", "TOP", "12", "12"),
      RawRow("id", "1.5", "12", "TOP", Missing, "12"),
      RawRow("", "1.5", "12", "TOP", "12", "12"),
      RawRow("id", "abc", "12", "TOP", "12", "12"),
      RawRow("id", "1.5", "12", "TOP", "12", "1.5") }

\* Python's float() and int() on the cell texts that occur; floats are held
\* in tenths.
FloatParses(s) == s \in {"12", "1.5"}
FloatOf(s) == IF s = "12" THEN 120 ELSE 15
IntParses(s) == s = "12"
IntOf(s) == 12

FieldAbsent_KeyOnly(row, f) == row[f] = Missing

\* Line 115: `field not in row or not row[field]`.
FieldAbsent(row, f) == row[f] = Missing \/ row[f] = ""

\* Lines 114-117.
AnyRequiredAbsent(row) ==
    \E k \in 1..Len(required_fields) : FieldAbsent(row, required_fields[k])

\* Lines 120-141: the conversions raise ValueError/TypeError.
ConversionFails(row) ==
    \/ ~FloatParses(row.centroid_lon)
    \/ ~FloatParses(row.centroid_lat)
    \/ ~IntParses(row.gridX)
    \/ ~IntParses(row.gridY)

\* validate_gridpoint_row returns None.
RowRejected(row) == AnyRequiredAbsent(row) \/ ConversionFails(row)

\* Lines 122-138: the validated row (n is the row's line in the file).
validate_gridpoint_row(row, n) ==
    [n |-> n,
     api_call_id |-> row.api_call_id,
     centroid_lon |-> FloatOf(row.centroid_lon),
     centroid_lat |-> FloatOf(row.centroid_lat),
     grid_id |-> row.gridId,
     grid_x |-> IntOf(row.gridX),
     grid_y |-> IntOf(row.gridY)]

\* parse_tsv_file, lines 83-92: the first num_rows rows, or all of them.
parse_tsv_file(rows, limit) ==
    IF limit # None THEN SubSeq(rows, 1, Min(limit, Len(rows))) ELSE rows

RECURSIVE ValidRows(_, _)
\* load_gridpoints_from_tsv, lines 125-129; k is the line of the first row.
ValidRows(rows, k) ==
    IF rows = << >> THEN << >>
    ELSE IF RowRejected(Head(rows))
         THEN ValidRows(Tail(rows), k + 1)
         ELSE << validate_gridpoint_row(Head(rows), k) >>
              \o ValidRows(Tail(rows), k + 1)

\* A row of table gridpoints: the inserted columns and the geography column
\* that ADD_GEOGRAPHY_COLUMN derives.
TableRow(v, geog) ==
    [n |-> v.n, api_call_id |-> v.api_call_id, centroid_lon |-> v.centroid_lon,
     centroid_lat |-> v.centroid_lat, grid_id |-> v.grid_id,
     grid_x |-> v.grid_x, grid_y |-> v.grid_y, geog |-> geog]

\* insert_sql, lines 41-49: geog is not among the inserted columns.
InsertedRows(batch) == [k \in 1..Len(batch) |-> TableRow(batch[k], "NULL")]

\* Content of the table before the load: empty, or rows of an earlier load.
PriorTable ==
    << TableRow(validate_gridpoint_row(RawRow("old", "12", "12", "TOP", "12", "12"), -1), "set"),
       TableRow(validate_gridpoint_row(RawRow("old", "1.5", "12", "TOP", "12", "12"), -2), "NULL") >>

\* create_schema_gridpoints.py lines 46-51: UPDATE ... SET geog WHERE geog IS NULL.
AddGeography(t) ==
    [k \in 1..Len(t) |-> [t[k] EXCEPT !.geog = "set"]]

Rollback_KeepsPending(committed, pending) == committed \o pending

\* get_db_cursor lines 74-79: an error inside the with block rolls the
\* transaction back; the rows it had inserted are gone.
Rollback(committed, pending) == committed

\* get_db_cursor lines 71-73.
Commit(committed, pending) == committed \o pending

ShouldTruncate_Never(m) == FALSE

\* load_gridpoints_from_tsv line 139.
ShouldTruncate(m) == m = "o"

NoValidRows_Ignored(valid) == FALSE

\* Line 134: `if not valid_gridpoints`.
NoValidRows(valid) == valid = << >>

\* insert_gridpoints line 54.
BatchAt(valid, off, B) == SubSeq(valid, off + 1, Min(off + B, Len(valid)))

Stmt(op, k) == [op |-> op, batch |-> k]

InitLoad ==
    /\ load_pc = "test_connection"
    /\ \E n \in 0..MaxRows : tsv_rows \in [1..n -> RowSamples]
    /\ num_rows \in {None} \cup 0..MaxNumRows
    /\ mode \in {"o", "a"}
    /\ load_batch_size \in 1..MaxLoadBatch
    /\ raw_data = << >>
    /\ valid_gridpoints = << >>
    /\ offset = 0
    /\ successful_inserts = 0
    /\ success = "none"
    /\ table \in {<< >>, PriorTable}
    /\ table_before = table
    /\ txn = << >>
    /\ db_log = << >>
    /\ load_error = "none"
    /\ load_result = "none"
    /\ FetchIdle /\ CallIdle /\ GridIdle

\* The function returns False after logging msg.
ReturnFalse(msg) ==
    /\ load_error' = msg
    /\ load_result' = "False"
    /\ load_pc' = "returned"

load_inputs == << tsv_rows, num_rows, mode, load_batch_size, table_before >>

\* Lines 108-110 with test_connection (timescale_db_connection.py 87-129).
TestConnectionOk ==
    /\ load_pc = "test_connection"
    /\ load_pc' = "initialize_schema"
    /\ UNCHANGED << load_inputs, raw_data, valid_gridpoints, offset,
                    successful_inserts, success, table, txn, db_log,
                    load_error, load_result >>
    /\ UNCHANGED not_load

TestConnectionFails ==
    /\ load_pc = "test_connection"
    /\ ReturnFalse("Database connection failed. Aborting.")
    /\ UNCHANGED << load_inputs, raw_data, valid_gridpoints, offset,
                    successful_inserts, success, table, txn, db_log >>
    /\ UNCHANGED not_load

\* Lines 113-115 with initialize_schema (create_schema_gridpoints.py 62-91):
\* the DDL and the geography UPDATE commit, the table is found.
InitializeSchemaOk ==
    /\ load_pc = "initialize_schema"
    /\ table' = AddGeography(table)
    /\ db_log' = Append(db_log, Stmt("schema", 0))
    /\ load_pc' = "parse"
    /\ UNCHANGED << load_inputs, raw_data, valid_gridpoints, offset,
                    successful_inserts, success, txn, load_error, load_result >>
    /\ UNCHANGED not_load

\* A statement of initialize_schema fails: rolled back, False.
InitializeSchemaFails ==
    /\ load_pc = "initialize_schema"
    /\ table' = Rollback(table, << >>)
    /\ ReturnFalse("Schema initialization failed. Aborting.")
    /\ UNCHANGED << load_inputs, raw_data, valid_gridpoints, offset,
                    successful_inserts, success, txn, db_log >>
    /\ UNCHANGED not_load

\* The with block of initialize_schema commits, then check_table_exists
\* returns False (its query fails): lines 82-87.
InitializeSchemaCheckFails ==
    /\ load_pc = "initialize_schema"
    /\ table' = AddGeography(table)
    /\ db_log' = Append(db_log, Stmt("schema", 0))
    /\ ReturnFalse("Schema initialization failed. Aborting.")
    /\ UNCHANGED << load_inputs, raw_data, valid_gridpoints, offset,
                    successful_inserts, success, txn >>
    /\ UNCHANGED not_load

\* Lines 118-120.
ParseOk ==
    /\ load_pc = "parse"
    /\ raw_data' = parse_tsv_file(tsv_rows, num_rows)
    /\ load_pc' = "validate"
    /\ UNCHANGED << load_inputs, valid_gridpoints, offset, successful_inserts,
                    success, table, txn, db_log, load_error, load_result >>
    /\ UNCHANGED not_load

\* Lines 121-123: parse_tsv_file raises (the file cannot be opened or read).
ParseFails ==
    /\ load_pc = "parse"
    /\ ReturnFalse("Error parsing TSV file")
    /\ UNCHANGED << load_inputs, raw_data, valid_gridpoints, offset,
                    successful_inserts, success, table, txn, db_log >>
    /\ UNCHANGED not_load

\* The table cleared in overwrite mode before the validated rows are counted.
Validate_TruncatesFirst ==
    /\ load_pc = "validate"
    /\ valid_gridpoints' = ValidRows(raw_data, 1)
    /\ table' = IF ShouldTruncate(mode) THEN << >> ELSE table
    /\ db_log' = IF ShouldTruncate(mode)
                 THEN Append(db_log, Stmt("truncate", 0)) ELSE db_log
    /\ IF NoValidRows(valid_gridpoints')
       THEN ReturnFalse("No valid gridpoints found in the file. Aborting.")
       ELSE /\ load_pc' = "insert"
            /\ UNCHANGED << load_error, load_result >>
    /\ UNCHANGED << load_inputs, raw_data, offset, successful_inserts, success,
                    txn >>
    /\ UNCHANGED not_load

\* Lines 126-136.
Validate ==
    /\ load_pc = "validate"
    /\ valid_gridpoints' = ValidRows(raw_data, 1)
    /\ IF NoValidRows(valid_gridpoints')
       THEN ReturnFalse("No valid gridpoints found in the file. Aborting.")
       ELSE /\ load_pc' = IF ShouldTruncate(mode) THEN "truncate" ELSE "insert"
            /\ UNCHANGED << load_error, load_result >>
    /\ UNCHANGED << load_inputs, raw_data, offset, successful_inserts, success,
                    table, txn, db_log >>
    /\ UNCHANGED not_load

\* Lines 139-142: TRUNCATE in its own committed transaction.
TruncateOk ==
    /\ load_pc = "truncate"
    /\ table' = << >>
    /\ db_log' = Append(db_log, Stmt("truncate", 0))
    /\ load_pc' = "insert"
    /\ UNCHANGED << load_inputs, raw_data, valid_gridpoints, offset,
                    successful_inserts, success, txn, load_error, load_result >>
    /\ UNCHANGED not_load

\* The connection, the TRUNCATE or its commit fails: the exception reaches
\* the handler of lines 152-154.
TruncateFails ==
    /\ load_pc = "truncate"
    /\ table' = Rollback(table, << >>)
    /\ ReturnFalse("Error loading gridpoints")
    /\ UNCHANGED << load_inputs, raw_data, valid_gridpoints, offset,
                    successful_inserts, success, txn, db_log >>
    /\ UNCHANGED not_load

\* insert_gridpoints returned `ok`; lines 145-150 return it.
ReturnSuccess(ok) ==
    /\ success' = ok
    /\ load_result' = ok
    /\ load_pc' = "returned"

BatchNo == offset \div load_batch_size + 1

\* insert_gridpoints lines 53, 84-85: the range is exhausted.
InsertDone ==
    /\ load_pc = "insert"
    /\ offset >= Len(valid_gridpoints)
    /\ ReturnSuccess("True")
    /\ UNCHANGED << load_inputs, raw_data, valid_gridpoints, offset,
                    successful_inserts, table, txn, db_log, load_error >>
    /\ UNCHANGED not_load

\* Lines 53-56: next batch, get_db_cursor connects.
BatchConnect ==
    /\ load_pc = "insert"
    /\ offset < Len(valid_gridpoints)
    /\ db_log' = Append(db_log, Stmt("attempt", BatchNo))
    /\ txn' = << >>
    /\ load_pc' = "executemany"
    /\ UNCHANGED << load_inputs, raw_data, valid_gridpoints, offset,
                    successful_inserts, success, table, load_error, load_result >>
    /\ UNCHANGED not_load

\* get_connection raises; lines 87-89 return False.
BatchConnectFails ==
    /\ load_pc = "insert"
    /\ offset < Len(valid_gridpoints)
    /\ db_log' = Append(db_log, Stmt("attempt", BatchNo))
    /\ load_error' = "Error inserting gridpoints"
    /\ ReturnSuccess("False")
    /\ UNCHANGED << load_inputs, raw_data, valid_gridpoints, offset,
                    successful_inserts, table, txn >>
    /\ UNCHANGED not_load

\* Lines 78-82: executemany inserts the batch, the counter is updated.
ExecuteManyOk ==
    /\ load_pc = "executemany"
    /\ LET batch == BatchAt(valid_gridpoints, offset, load_batch_size)
       IN  /\ txn' = InsertedRows(batch)
           /\ successful_inserts' = successful_inserts + Len(batch)
    /\ load_pc' = "commit"
    /\ UNCHANGED << load_inputs, raw_data, valid_gridpoints, offset, success,
                    table, db_log, load_error, load_result >>
    /\ UNCHANGED not_load

\* executemany raises after inserting `done` rows of the batch: rollback,
\* lines 87-89 return False.
ExecuteManyFails(done) ==
    /\ load_pc = "executemany"
    /\ LET batch == BatchAt(valid_gridpoints, offset, load_batch_size)
       IN  /\ done < Len(batch)
           /\ table' = Rollback(table, InsertedRows(SubSeq(batch, 1, done)))
    /\ txn' = << >>
    /\ db_log' = Append(db_log, Stmt("rollback", BatchNo))
    /\ load_error' = "Error inserting gridpoints"
    /\ ReturnSuccess("False")
    /\ UNCHANGED << load_inputs, raw_data, valid_gridpoints, offset,
                    successful_inserts >>
    /\ UNCHANGED not_load

\* get_db_cursor lines 71-73: the batch's transaction commits.
CommitOk ==
    /\ load_pc = "commit"
    /\ table' = Commit(table, txn)
    /\ txn' = << >>
    /\ db_log' = Append(db_log, Stmt("insert", BatchNo))
    /\ offset' = offset + load_batch_size
    /\ load_pc' = "insert"
    /\ UNCHANGED << load_inputs, raw_data, valid_gridpoints,
                    successful_inserts, success, load_error, load_result >>
    /\ UNCHANGED not_load

\* conn.commit() raises: lines 74-79 roll back, lines 87-89 return False.
CommitFails ==
    /\ load_pc = "commit"
    /\ table' = Rollback(table, txn)
    /\ txn' = << >>
    /\ db_log' = Append(db_log, Stmt("rollback", BatchNo))
    /\ load_error' = "Error inserting gridpoints"
    /\ ReturnSuccess("False")
    /\ UNCHANGED << load_inputs, raw_data, valid_gridpoints, offset,
                    successful_inserts >>
    /\ UNCHANGED not_load

NextLoad ==
    \/ TestConnectionOk
    \/ TestConnectionFails
    \/ InitializeSchemaOk
    \/ InitializeSchemaFails
    \/ InitializeSchemaCheckFails
    \/ ParseOk
    \/ ParseFails
    \/ Validate
    \/ TruncateOk
    \/ TruncateFails
    \/ InsertDone
    \/ BatchConnect
    \/ BatchConnectFails
    \/ ExecuteManyOk
    \/ \E done \in 0..(MaxLoadBatch + 1) : ExecuteManyFails(done)
    \/ CommitOk
    \/ CommitFails

SpecLoad == InitLoad /\ [][NextLoad]_vars

\* ======================================================= create_us_grid
MaxHalfCells == 3
MaxPolygons == 2

\* grid_utils.py line 73.
cell_size == 2500

\* Extents the construction is driven with: multiples of half a cell edge.
Extents == { k * (cell_size \div 2) : k \in 0..MaxHalfCells }

\* The quotient truncated by int() without np.ceil.
CellCount_Truncated(extent) == extent \div cell_size

\* Line 77: int(np.ceil(extent / cell_size)).
CellCount(extent) == CeilDiv(extent, cell_size)

\* Lines 80-98: cell (ci, cj) is the m-th emitted, outer loop over x, inner
\* over y.  cent_lon and cent_lat stand for the reprojected centroid by the
\* cell's column and row, which order them as the coordinates do.  Lines
\* 87-90: the corners, measured from (minx, miny).
Cell(m, ci, cj) ==
    [id |-> m, ci |-> ci, cj |-> cj, cent_lon |-> ci, cent_lat |-> cj,
     x0 |-> ci * cell_size, y0 |-> cj * cell_size,
     x1 |-> (ci + 1) * cell_size, y1 |-> (cj + 1) * cell_size]

\* The emission counter restarted with every column of the grid.
CandidateCells_RestartsPerColumn(nx, ny) ==
    [m \in 1..(nx * ny) |-> Cell((m - 1) % ny, (m - 1) \div ny, (m - 1) % ny)]

CandidateCells(nx, ny) ==
    [m \in 1..(nx * ny) |-> Cell(m - 1, (m - 1) \div ny, (m - 1) % ny)]

\* Line 127-130: descending by (cent_lat, cent_lon).
Before(a, b) ==
    \/ a.cent_lat > b.cent_lat
    \/ a.cent_lat = b.cent_lat /\ a.cent_lon > b.cent_lon

RECURSIVE SortValues(_)
SortValues(cells) ==
    IF cells = {} THEN << >>
    ELSE LET first == CHOOSE c \in cells : \A d \in cells \ {c} : Before(c, d)
         IN  << first >> \o SortValues(cells \ {first})

InitGrid ==
    /\ grid_pc = "save_states"
    /\ shapefile_path \in BOOLEAN
    /\ output_path \in BOOLEAN
    /\ contiguous_n \in 0..MaxPolygons
    /\ width \in Extents
    /\ height \in Extents
    /\ contiguous_n = 0 => (width = 0 /\ height = 0)
    /\ grids = << >>
    /\ grids_filtered = << >>
    /\ files = {}
    /\ grid_log = << >>
    /\ grid_ret = "pending"
    /\ FetchIdle /\ CallIdle /\ LoadIdle

grid_inputs == << shapefile_path, output_path, contiguous_n, width, height >>

\* Line 41 false.
SaveStatesSkipped ==
    /\ grid_pc = "save_states"
    /\ ~shapefile_path
    /\ grid_pc' = "build"
    /\ UNCHANGED << grid_inputs, grids, grids_filtered, files, grid_log, grid_ret >>
    /\ UNCHANGED not_grid

\* Lines 41-45.
SaveStatesOk ==
    /\ grid_pc = "save_states"
    /\ shapefile_path
    /\ files' = files \cup {"us_states"}
    /\ grid_pc' = "build"
    /\ UNCHANGED << grid_inputs, grids, grids_filtered, grid_log, grid_ret >>
    /\ UNCHANGED not_grid

\* Lines 43-47: to_file raises, a warning is logged, construction goes on.
SaveStatesFails ==
    /\ grid_pc = "save_states"
    /\ shapefile_path
    /\ grid_log' = Append(grid_log, "warning")
    /\ grid_pc' = "build"
    /\ UNCHANGED << grid_inputs, grids, grids_filtered, files, grid_ret >>
    /\ UNCHANGED not_grid

\* Line 42: os.makedirs is outside the try; its OSError leaves the function.
SaveStatesMakedirsFails ==
    /\ grid_pc = "save_states"
    /\ shapefile_path
    /\ grid_ret' = "raised"
    /\ grid_pc' = "returned"
    /\ UNCHANGED << grid_inputs, grids, grids_filtered, files, grid_log >>
    /\ UNCHANGED not_grid

\* Lines 71-107: bounds, cell counts, candidate cells.
BuildGrid ==
    /\ grid_pc = "build"
    /\ contiguous_n > 0
    /\ grids' = CandidateCells(CellCount(width), CellCount(height))
    /\ grid_pc' = "filter"
    /\ UNCHANGED << grid_inputs, grids_filtered, files, grid_log, grid_ret >>
    /\ UNCHANGED not_grid

\* Lines 71, 77: total_bounds of an empty frame is NaN, and int(nan) raises
\* ValueError.
BuildGridRaises ==
    /\ grid_pc = "build"
    /\ contiguous_n = 0
    /\ grid_ret' = "raised"
    /\ grid_pc' = "returned"
    /\ UNCHANGED << grid_inputs, grids, grids_filtered, files, grid_log >>
    /\ UNCHANGED not_grid

\* Lines 114-130: the cells that intersect the dissolved boundary, sorted.
FilterGrid(kept) ==
    /\ grid_pc = "filter"
    /\ grids_filtered' = SortValues({ grids[m] : m \in kept })
    /\ grid_pc' = "save_grid"
    /\ UNCHANGED << grid_inputs, grids, files, grid_log, grid_ret >>
    /\ UNCHANGED not_grid

\* Line 139 false, line 148.
SaveGridSkipped ==
    /\ grid_pc = "save_grid"
    /\ ~output_path
    /\ grid_ret' = "grid"
    /\ grid_pc' = "returned"
    /\ UNCHANGED << grid_inputs, grids, grids_filtered, files, grid_log >>
    /\ UNCHANGED not_grid

\* Lines 139-143, 148.
SaveGridOk ==
    /\ grid_pc = "save_grid"
    /\ output_path
    /\ files' = files \cup {"grids"}
    /\ grid_ret' = "grid"
    /\ grid_pc' = "returned"
    /\ UNCHANGED << grid_inputs, grids, grids_filtered, grid_log >>
    /\ UNCHANGED not_grid

\* Lines 141-146: to_file raises, an error is logged, `return None`.
SaveGridFails ==
    /\ grid_pc = "save_grid"
    /\ output_path
    /\ grid_log' = Append(grid_log, "error")
    /\ grid_ret' = "None"
    /\ grid_pc' = "returned"
    /\ UNCHANGED << grid_inputs, grids, grids_filtered, files >>
    /\ UNCHANGED not_grid

\* Line 140: os.makedirs is outside the try.
SaveGridMakedirsFails ==
    /\ grid_pc = "save_grid"
    /\ output_path
    /\ grid_ret' = "raised"
    /\ grid_pc' = "returned"
    /\ UNCHANGED << grid_inputs, grids, grids_filtered, files, grid_log >>
    /\ UNCHANGED not_grid

NextGrid ==
    \/ SaveStatesSkipped
    \/ SaveStatesOk
    \/ SaveStatesFails
    \/ SaveStatesMakedirsFails
    \/ BuildGrid
    \/ BuildGridRaises
    \/ \E kept \in SUBSET (1..Len(grids)) : FilterGrid(kept)
    \/ SaveGridSkipped
    \/ SaveGridOk
    \/ SaveGridFails
    \/ SaveGridMakedirsFails

SpecGrid == InitGrid /\ [][NextGrid]_vars

\* The programs of the repository, each run on its own.
Init == InitFetch \/ InitCall \/ InitLoad \/ InitGrid
Next == NextFetch \/ NextCall \/ NextLoad \/ NextGrid
Spec == Init /\ [][Next]_vars

\* ================================================= properties: fetch
Requests == SelectSeq(trace, LAMBDA ev : ev.e = "req")
Flushes == SelectSeq(trace, LAMBDA ev : ev.e = "flush")

LoopAborted == pc = "aborted" /\ i <= last_index
LoopCompleted == pc \in {"report", "done"} \/ (pc = "aborted" /\ i > last_index)

\* C1 as stated: whatever the per-request outcomes, the loop never terminates
\* early except on a local I/O error while preparing the sink.
C1_Original == LoopAborted => exc = "OSError"

\* C1 amended: a transport failure or a non-2xx response never ends the loop;
\* the loop terminates early only on a local I/O error in a flush or with
\* ValueError at the flush of a batch that holds a 2xx body which is not an
\* object or whose coordinate array is not of length 2; and such a body always
\* ends the run at the flush of its batch, so a completed loop has seen none.
C1_FailedRequestNeverAborts ==
    /\ LoopAborted =>
          /\ trace[Len(trace)].e = "flush"
          /\ \/ exc = "OSError"
             \/ /\ exc = "ValueError"
                /\ \E k \in 1..Len(json_responses) :
                      RaisesValueError(json_responses[k])
    /\ LoopCompleted =>
          /\ Len(Requests) = last_index + 1
          /\ \A k \in 1..Len(Requests) :
                Requests[k].o = "ok" => ~RaisesValueError(Requests[k].b)
          /\ count_failed_responses =
                Cardinality({k \in 1..Len(Requests) : Requests[k].o # "ok"})

C1_Witness ==
    /\ pc = "done"
    /\ \E a, b, c \in 1..Len(Requests) :
          /\ Requests[a].o = "transport"
          /\ Requests[b].o = "non2xx"
          /\ Requests[c].o = "ok"

\* C2: the loop issues exactly min(limit, len(cells)) lookups (len(cells) when
\* no limit is given), for the indices 0, 1, ... in increasing order, each once.
C2_ExactlyMinLookups ==
    LoopCompleted =>
        LET n == IF num_points_limit = None THEN cells_len
                 ELSE Min(num_points_limit, cells_len)
        IN  /\ Len(Requests) = n
            /\ \A k \in 1..Len(Requests) : Requests[k].i = k - 1

\* C3: the number of flushes is ceil(N/B) for the N attempts made: the k-th
\* flush comes right after attempt min(k*B, N), once, whatever failed in the
\* window.
C3_FlushPerWindow ==
    /\ count_batch = Len(Flushes)
    /\ \A k \in 1..Len(Flushes) :
          Flushes[k].i = Min(k * batch_size - 1, last_index)
    /\ pc = "issue" => count_batch = Len(Requests) \div batch_size
    /\ (LoopCompleted \/ LoopAborted) =>
          count_batch = CeilDiv(Len(Requests), batch_size)
    /\ LoopCompleted =>
          count_batch = CeilDiv(last_index + 1, batch_size)

\* A completed run of three attempts in windows of two, the whole first
\* window failed.
C3_Witness ==
    /\ pc = "done"
    /\ batch_size = 2
    /\ Len(Requests) = 3
    /\ Requests[1].o # "ok" /\ Requests[2].o # "ok"
    /\ count_batch = 2

\* C4: before the first request of every batch but the first, exactly one
\* sleep has happened since the last request of the batch before, whether that
\* request succeeded or failed.
C4_SleepBetweenBatches ==
    \A q \in 1..Len(trace) :
        (trace[q].e = "req" /\ trace[q].i > 0 /\ trace[q].i % batch_size = 0) =>
            \E p \in 1..(q - 1) :
                /\ trace[p].e = "req" /\ trace[p].i = trace[q].i - 1
                /\ Cardinality({m \in (p + 1)..(q - 1) : trace[m].e = "sleep"}) = 1

\* C12: after any sequence of flushes the sink starts with the header of the
\* extracted field names in their fixed order, holds that header exactly once,
\* and every data row has its values in that column order, also when a flush
\* carries no record or a record lacks its id or its coordinates.
C12_SinkWellFormed ==
    sink.exists =>
        /\ sink.lines # << >>
        /\ sink.lines[1] = HeaderLine(AllCols)
        /\ Len(SelectSeq(sink.lines, LAMBDA l : l.t = "header")) = 1
        /\ \A k \in 1..Len(sink.lines) :
              sink.lines[k].t = "row" => sink.lines[k].cols = AllCols

\* C14: at every point of the fetch loop the buffer holds at most batch_size
\* bodies, the bodies of the current window only, and it is empty after each
\* flush: at the start of a window and when the loop has ended.
C14_BufferBounded ==
    /\ Len(json_responses) <= batch_size
    /\ pc = "issue" => Len(json_responses) <= i % batch_size
    /\ pc \in {"report", "done"} => json_responses = << >>

\* A run past the flush of a full window of two bodies, with the next window
\* about to start on an empty buffer.
C14_Witness ==
    /\ pc = "issue"
    /\ batch_size = 2
    /\ i = 2
    /\ Len(Flushes) = 1
    /\ Len(SelectSeq(Requests, LAMBDA ev : ev.o = "ok")) = 2
    /\ json_responses = << >>

\* C17: the written count reported at the end of a fetch run equals the
\* number of data rows the sink holds.
C17_WrittenCountIsRowsPersisted ==
    pc = "done" => count_written_responses = Len(DataRows(sink))

\* ============================================ properties: the extractor
HasNonObject(json_strings) ==
    \E k \in 1..Len(json_strings) : json_strings[k].top \in {"list", "scalar"}

\* C10: a call whose input holds a response that is a list (or any other
\* non-object value) fails with ValueError and leaves the sink file as it was,
\* whatever well-formed responses the same call was given.
C10_NonObjectFailsWritesNothing ==
    [][(call_pc = "ready" /\ HasNonObject(call_input)) =>
          (call_exc' = "ValueError" /\ call_file' = call_file)]_vars

\* A failed call that was given a well-formed response before the list, on an
\* existing sink.
C10_Witness ==
    /\ call_pc = "returned"
    /\ call_exc = "ValueError"
    /\ Len(call_input) >= 2
    /\ AppendsRecord(call_input[1]) /\ ~RaisesValueError(call_input[1])
    /\ call_input[2].top = "list"
    /\ call_file = PriorFile

\* The rows a call left in the sink for the response at position k.
RowsOf(k) == SelectSeq(DataRows(call_file), LAMBDA l : l.src = k)

\* Every response of the call is an object whose coordinates, if present, are
\* a pair.
OnlyObjects ==
    \A k \in 1..Len(call_input) :
        call_input[k].top = "object" /\ call_input[k].coords # "wronglen"

\* C13 as stated: every object response gets a record in which each extracted
\* field is present, holding its value or a placeholder.
C13_Original ==
    (call_pc = "returned" /\ OnlyObjects) =>
        /\ call_exc = "none"
        /\ \A k \in 1..Len(call_input) :
              /\ Len(RowsOf(k)) = 1
              /\ SeqToSet(RowsOf(k)[1].keys) = SeqToSet(AllCols)

\* C13: a call given only object responses never raises.  A response with a
\* properties object gets one record: it holds every whitelisted key, with
\* the placeholder "" exactly for the keys the properties lack, and it holds
\* the id key and the coordinate keys only if the response has them.  A
\* response without a properties object gets no record.
C13_MissingKeyNeverRaises ==
    (call_pc = "returned" /\ OnlyObjects) =>
        /\ call_exc = "none"
        /\ \A k \in 1..Len(call_input) :
              LET b == call_input[k]
              IN  IF b.props
                  THEN /\ Len(RowsOf(k)) = 1
                       /\ SeqToSet(keys_to_extract) \subseteq SeqToSet(RowsOf(k)[1].keys)
                       /\ RowsOf(k)[1].blank = b.lacks
                       /\ ("api_call_id" \in SeqToSet(RowsOf(k)[1].keys)) = b.id
                       /\ ({"centroid_lon", "centroid_lat"}
                              \subseteq SeqToSet(RowsOf(k)[1].keys))
                            = (b.coords = "pair")
                  ELSE RowsOf(k) = << >>

\* A call given an object without properties, an object without id and
\* coordinates, and an object whose properties lack a whitelisted key.
C13_Witness ==
    /\ call_pc = "returned"
    /\ call_exc = "none"
    /\ Len(call_input) = 3
    /\ ~call_input[1].props
    /\ call_input[2].props /\ ~call_input[2].id /\ call_input[2].coords = "absent"
    /\ call_input[3].lacks = {"gridX"}
    /\ RowsOf(1) = << >>
    /\ Len(RowsOf(2)) = 1
    /\ RowsOf(3)[1].blank = {"gridX"}

HasUnparseable(json_strings) ==
    \E k \in 1..Len(json_strings) : json_strings[k].top = "unparseable"

\* The input without its unparseable strings.
Parseable(json_strings) ==
    SelectSeq(json_strings, LAMBDA b : b.top # "unparseable")

\* The positions of the object responses that have properties, in order.
RecordPositions(json_strings) ==
    SelectSeq([k \in 1..Len(json_strings) |-> k],
              LAMBDA k : json_strings[k].top = "object" /\ json_strings[k].props)

\* The rows a file holds after those of an earlier file.
RowsAfter(old, new) ==
    SubSeq(DataRows(new), Len(DataRows(old)) + 1, Len(DataRows(new)))

\* C19: an unparseable string in a call is skipped for that item only.  The
\* call ends as it would without the string, and when no other response is
\* rejected it does not fail and appends to the sink, in input order, one
\* record for every object response that has properties.
C19_UnparseableSkipped ==
    [][(call_pc = "ready" /\ HasUnparseable(call_input)) =>
          /\ call_exc' = process_nws_responses(Parseable(call_input), call_file).exc
          /\ call_file' = process_nws_responses(Parseable(call_input), call_file).file
          /\ (\A k \in 1..Len(call_input) :
                 call_input[k].top \in {"object", "unparseable"}
                 /\ call_input[k].coords # "wronglen") =>
                /\ call_exc' = "none"
                /\ DataRows(call_file') = DataRows(call_file) \o RowsAfter(call_file, call_file')
                /\ [k \in 1..Len(RowsAfter(call_file, call_file')) |->
                       RowsAfter(call_file, call_file')[k].src]
                     = RecordPositions(call_input)]_vars

\* A call given an object, then a string that is not JSON, then an object:
\* both records are in the sink.
C19_Witness ==
    /\ call_pc = "returned"
    /\ call_exc = "none"
    /\ Len(call_input) = 3
    /\ AppendsRecord(call_input[1])
    /\ call_input[2].top = "unparseable"
    /\ AppendsRecord(call_input[3])
    /\ Len(RowsOf(1)) = 1 /\ Len(RowsOf(3)) = 1

\* ================================================== properties: the load
\* The rows the load has to insert, and the table content they are added to.
FileValidRows == ValidRows(parse_tsv_file(tsv_rows, num_rows), 1)
BaseRows == IF mode = "o" THEN << >> ELSE AddGeography(table_before)

Statements(op) == SelectSeq(db_log, LAMBDA st : st.op = op)

InsertFailed ==
    load_pc = "returned" /\ load_error = "Error inserting gridpoints"

\* C5: when the insert of batch k fails, the load returns False, the table
\* holds the rows of batches 1..k-1 (after nothing in overwrite mode, after
\* the prior rows in append mode) and no row of batch k or of a later batch,
\* and no batch after k is attempted.
C5_FailedBatchLeavesEarlierBatches ==
    InsertFailed =>
        LET k == BatchNo
            kept == SubSeq(FileValidRows, 1, (k - 1) * load_batch_size)
        IN  /\ load_result = "False"
            /\ table = BaseRows \o InsertedRows(kept)
            /\ \A r \in 1..Len(table) :
                  table[r].n >= 1 =>
                      \E q \in 1..Len(kept) : kept[q].n = table[r].n
            /\ Statements("insert") = [b \in 1..(k - 1) |-> Stmt("insert", b)]
            /\ Statements("attempt") = [b \in 1..k |-> Stmt("attempt", b)]
            /\ mode = "o" => Len(table) <= (k - 1) * load_batch_size

\* Overwrite mode over prior content, batch 2 of 3 fails after inserting part
\* of its rows or at its commit.
C5_Witness ==
    /\ InsertFailed
    /\ mode = "o"
    /\ table_before = PriorTable
    /\ BatchNo = 2
    /\ Len(FileValidRows) > 2 * load_batch_size
    /\ Statements("rollback") # << >>
    /\ Len(table) = load_batch_size

EarlyFailures ==
    { "Database connection failed. Aborting.",
      "Schema initialization failed. Aborting.",
      "Error parsing TSV file",
      "No valid gridpoints found in the file. Aborting." }

\* C7 as stated: the load returns False without raising when the connectivity
\* test, the schema initialisation or the parse fails or no row validates;
\* in every other case it returns the success of the batched insert.
C7_Original ==
    load_pc = "returned" =>
        /\ load_result \in {"True", "False"}
        /\ load_error \in EarlyFailures => load_result = "False"
        /\ load_error \notin EarlyFailures =>
              (success # "none" /\ load_result = success)

\* C7 amended: the same, with one more case of failure: in overwrite mode the
\* truncate of the table fails; then too the load returns False and
\* insert_gridpoints is not called.
C7_ReturnsFalseOrInsertResult ==
    load_pc = "returned" =>
        /\ load_result \in {"True", "False"}
        /\ load_error \in EarlyFailures \cup {"Error loading gridpoints"} =>
              (load_result = "False" /\ success = "none")
        /\ load_error = "Error loading gridpoints" => mode = "o"
        /\ load_error \notin EarlyFailures \cup {"Error loading gridpoints"} =>
              (success # "none" /\ load_result = success)
        /\ load_result = "True" => (load_error = "none" /\ FileValidRows # << >>)
        /\ (raw_data # << >> /\ FileValidRows = << >>) => load_result = "False"

\* A file with rows of which none validates.
C7_Witness ==
    /\ load_pc = "returned"
    /\ load_result = "False"
    /\ load_error = "No valid gridpoints found in the file. Aborting."
    /\ Len(raw_data) >= 2

\* The claim's notion of an invalid row, field by field.
NotANumber(s) == s \notin {"12", "1.5"}
NotAnInteger(s) == s # "12"
InvalidRow(row) ==
    \/ \E f \in {"api_call_id", "centroid_lon", "centroid_lat", "gridId", "gridX", "gridY"} :
          row[f] = Missing \/ row[f] = ""
    \/ NotANumber(row.centroid_lon) \/ NotANumber(row.centroid_lat)
    \/ NotAnInteger(row.gridX) \/ NotAnInteger(row.gridY)

NewRows == SelectSeq(table \o txn, LAMBDA r : r.n >= 1)

\* C8: every row that reaches the table (or an open transaction) comes from a
\* parsed row that is not invalid and carries all six required fields,
\* converted; after a successful load the number of inserted rows is the
\* number of parsed rows minus the number of invalid ones.
C8_InvalidRowsDropped ==
    /\ \A r \in 1..Len(NewRows) :
          LET t == NewRows[r]
          IN  /\ t.n \in 1..Len(raw_data)
              /\ ~InvalidRow(raw_data[t.n])
              /\ t.api_call_id = raw_data[t.n].api_call_id /\ t.api_call_id # ""
              /\ t.grid_id = raw_data[t.n].gridId /\ t.grid_id # ""
              /\ t.centroid_lon \in Int /\ t.centroid_lat \in Int
              /\ t.grid_x \in Int /\ t.grid_y \in Int
    /\ \A r \in 1..Len(valid_gridpoints) :
          ~InvalidRow(raw_data[valid_gridpoints[r].n])
    /\ (load_pc = "returned" /\ load_result = "True") =>
          Len(NewRows) =
              Len(raw_data) - Cardinality({k \in 1..Len(raw_data) : InvalidRow(raw_data[k])})

\* A successful load of a file with a row lacking gridX among valid rows.
C8_Witness ==
    /\ load_pc = "returned" /\ load_result = "True"
    /\ \E k \in 1..Len(raw_data) : raw_data[k].gridX = Missing
    /\ Len(raw_data) = 3
    /\ Len(NewRows) = 2

\* ------------------------------------------- a load that fails early
EarlyFailure == load_pc = "returned" /\ load_error \in EarlyFailures

\* The rows of a table without their geography column.
StripGeog(t) == [k \in 1..Len(t) |-> [t[k] EXCEPT !.geog = "-"]]

\* C21 as stated: a load that fails at the connectivity test, at the schema
\* initialisation, at the parse or for want of a valid row leaves the rows of
\* the table unchanged.
C21_Original == EarlyFailure => table = table_before

\* C21: the truncate is executed only in overwrite mode and only after a row
\* has validated, and a load that fails at the connectivity test, at the
\* schema initialisation, at the parse or for want of a valid row deletes and
\* adds no row.  It leaves every row as it was but for the geography column:
\* once the transaction of initialize_schema has committed, as it has when
\* the parse fails or no row validates, that column is filled in where it
\* was NULL.
C21_EarlyFailureKeepsRows ==
    /\ Statements("truncate") # << >> => (mode = "o" /\ FileValidRows # << >>)
    /\ EarlyFailure =>
          /\ Statements("truncate") = << >>
          /\ StripGeog(table) = StripGeog(table_before)
          /\ \A k \in 1..Len(table) :
                table[k].geog = IF Statements("schema") # << >> THEN "set"
                                ELSE table_before[k].geog
          /\ load_error = "Database connection failed. Aborting." =>
                table = table_before
          /\ load_error \in { "Error parsing TSV file",
                              "No valid gridpoints found in the file. Aborting." } =>
                Statements("schema") # << >>

\* An overwrite load of a file without a valid row, on a table that holds
\* rows of earlier loads: both rows are kept, one with its geography filled.
C21_Witness ==
    /\ EarlyFailure
    /\ load_error = "No valid gridpoints found in the file. Aborting."
    /\ mode = "o"
    /\ raw_data # << >>
    /\ table_before = PriorTable
    /\ Len(table) = 2
    /\ table # table_before

\* ------------------------------------------ interrupted fetch and load
\* The flushes that returned: a run that ended inside the loop ended in its
\* last flush.
CompletedFlushes ==
    IF LoopAborted THEN SubSeq(Flushes, 1, Len(Flushes) - 1) ELSE Flushes

\* The index of the last lookup whose batch was flushed.
FlushedThrough ==
    IF CompletedFlushes = << >> THEN -1
    ELSE CompletedFlushes[Len(CompletedFlushes)].i

\* The lookups that yield a record and whose batch was flushed, in order.
FlushedRecords ==
    SelectSeq(Requests, LAMBDA ev : /\ ev.o = "ok"
                                    /\ ev.i <= FlushedThrough
                                    /\ AppendsRecord(ev.b))

\* The rows of the sink written by this run, and those it found there.
NewSinkRows == SelectSeq(DataRows(sink), LAMBDA l : l.src >= 0)
OldSinkRows == SelectSeq(DataRows(sink), LAMBDA l : l.src < 0)

SinkHoldsFlushedBatches ==
    /\ DataRows(sink) = OldSinkRows \o NewSinkRows
    /\ OldSinkRows \in {<< >>, DataRows(PriorFile)}
    /\ Len(NewSinkRows) = Len(FlushedRecords)
    /\ \A k \in 1..Len(NewSinkRows) :
          /\ NewSinkRows[k].src = FlushedRecords[k].i
          /\ NewSinkRows[k].keys = RecordKeys(FlushedRecords[k].b)

\* The rows of the k-th batch of the load.
LoadBatch(k) ==
    InsertedRows(BatchAt(FileValidRows, (k - 1) * load_batch_size, load_batch_size))

RECURSIVE Replay(_, _)
\* The table after the committed statements of the first n log entries.
Replay(t, n) ==
    IF n = 0 THEN t
    ELSE LET before == Replay(t, n - 1)
             st == db_log[n]
         IN  CASE st.op = "schema" -> AddGeography(before)
               [] st.op = "truncate" -> << >>
               [] st.op = "insert" -> before \o LoadBatch(st.batch)
               [] OTHER -> before

TableIsLastCommit == table = Replay(table_before, Len(db_log))

\* C15: at every point of a fetch run the sink holds exactly the extracted
\* records of the batches flushed so far, in batch order, and no record of the
\* unfinished batch; at every point of a load the table is as the last
\* committed transaction left it.
C15_InterruptedRunLeavesCommittedWork ==
    SinkHoldsFlushedBatches /\ TableIsLastCommit

\* A fetch run stopped inside its second batch: the first batch is in the
\* sink, the body already buffered for the second is not.
C15_Witness ==
    /\ pc = "flush_check"
    /\ batch_size = 2
    /\ i = 2
    /\ Len(json_responses) = 1 /\ AppendsRecord(json_responses[1])
    /\ Len(NewSinkRows) = 2

\* ------------------------------------------------- counts of a fetch run
FailedRequests == SelectSeq(Requests, LAMBDA ev : ev.o # "ok")

\* The rows the run wrote for the lookup of index idx.
SinkRowsOf(idx) == SelectSeq(NewSinkRows, LAMBDA l : l.src = idx)

\* C18: at every point of a fetch run the failure counter is the number of
\* attempts that raised a request error, the records written over all batches
\* are at most the attempts less the failures, a successful attempt has at
\* most one record and a failed attempt has none.
C18_RecordsAtMostSuccesses ==
    /\ count_failed_responses = Len(FailedRequests)
    /\ Len(NewSinkRows) <= Len(Requests) - count_failed_responses
    /\ \A k \in 1..Len(Requests) :
          /\ Len(SinkRowsOf(Requests[k].i)) <= 1
          /\ Requests[k].o # "ok" => SinkRowsOf(Requests[k].i) = << >>

\* A completed run of three attempts: one failed, one answered by an object
\* without properties, one yielding a record.
C18_Witness ==
    /\ LoopCompleted
    /\ Len(Requests) = 3
    /\ count_failed_responses = 1
    /\ Len(NewSinkRows) = 1
    /\ \E k \in 1..3 : Requests[k].o = "ok" /\ ~Requests[k].b.props

\* ================================================== properties: the grid
\* C9: when writing a geometry file fails (and nothing else goes wrong) the
\* failure is logged and create_us_grid still returns the grid it built.
C9_SaveFailureNonFatal ==
    (grid_pc = "returned" /\ grid_log # << >> /\ grid_ret # "raised") =>
        grid_ret = "grid"


GridIds(cells) == { cells[k].id : k \in 1..Len(cells) }
GridReturned == grid_pc = "returned" /\ grid_ret = "grid"

\* C11 as stated: the ids of the returned grid of k cells are exactly
\* grid_0 .. grid_{k-1}.
C11_Original ==
    GridReturned => GridIds(grids_filtered) = 0..(Len(grids_filtered) - 1)

\* C11: the ids of the returned grid are unique, and each returned cell keeps
\* the emission number it got among the candidates, i * ny + j for the cell of
\* column i and row j; the ids are not renumbered after the filter.
C11_IdsUniqueByEmission ==
    GridReturned =>
        /\ Cardinality(GridIds(grids_filtered)) = Len(grids_filtered)
        /\ \A k \in 1..Len(grids_filtered) :
              /\ grids_filtered[k].id
                   = grids_filtered[k].ci * CellCount(height) + grids_filtered[k].cj
              /\ grids_filtered[k].id \in 0..(Len(grids) - 1)

C11_Witness ==
    /\ GridReturned
    /\ Len(grids) = 4
    /\ GridIds(grids_filtered) = {0, 3}

\* C16: with no boundary polygon left after the allow-list filter (and no
\* file to be saved), create_us_grid returns an empty grid and does not fail.
C16_EmptyBoundaryGivesEmptyGrid ==
    (grid_pc = "returned" /\ contiguous_n = 0
        /\ ~shapefile_path /\ ~output_path) =>
        (grid_ret = "grid" /\ grids_filtered = << >>)

\* The least n with n * cell_size >= extent.
Ceiling(extent) ==
    CHOOSE n \in 0..(extent + 1) :
        /\ n * cell_size >= extent
        /\ \A k \in 0..(n - 1) : k * cell_size < extent

\* The candidate cell of column ci and row cj.
CellAt(ci, cj) ==
    { grids[k] : k \in { n \in 1..Len(grids) : grids[n].ci = ci /\ grids[n].cj = cj } }

\* C20: for an extent of width W and height H the construction generates
\* exactly ceil(W / E) * ceil(H / E) candidate cells, E being cell_size: one
\* for every column i and row j, an axis-aligned square of edge E with its
\* lower left corner at (i * E, j * E) from the origin of the extent, whose id
\* is grid_{i * ny + j}.
C20_CandidateCells ==
    grid_pc \in {"filter", "save_grid", "returned"} /\ grid_ret # "raised" =>
        LET nx == Ceiling(width)
            ny == Ceiling(height)
        IN  /\ Len(grids) = nx * ny
            /\ \A ci \in 0..(nx - 1), cj \in 0..(ny - 1) :
                  \E c \in CellAt(ci, cj) :
                      /\ CellAt(ci, cj) = {c}
                      /\ c.id = ci * ny + cj
                      /\ c.x0 = ci * cell_size /\ c.y0 = cj * cell_size
                      /\ c.x1 - c.x0 = cell_size /\ c.y1 - c.y0 = cell_size

\* A 2 x 2 grid over an extent that is not a multiple of the cell edge.
C20_Witness ==
    /\ grid_pc = "filter"
    /\ width = 3 * (cell_size \div 2)
    /\ height = 3 * (cell_size \div 2)
    /\ Len(grids) = 4
    /\ grids[3].ci = 1 /\ grids[3].cj = 0 /\ grids[3].id = 2
====
